---- MODULE Spec2Model ----
(***************************************************************************)
(* ftp2http: a write-only FTP server that relays every received file as    *)
(* one multipart HTTP POST (src/ftp2http/ftp2http.py).                     *)
(*                                                                         *)
(* The module models                                                       *)
(*   - MultipartPostFile (the upload sink): write() and close();           *)
(*   - PostDTPHandlerMixin.close (the completion hook) together with the   *)
(*     data-channel life cycle of the pyftpdlib DTPHandler it extends;     *)
(*   - AccountAuthorizer.validate_authentication.                          *)
(*                                                                         *)
(* The specifications share the variables:                                 *)
(*   Spec      one data transfer driven by the protocol engine;            *)
(*   SpecSink  one sink driven by arbitrary write()/close() calls;         *)
(*   SpecAuth  validate_authentication over bounded account tables.        *)
(***************************************************************************)
EXTENDS Integers, Sequences, FiniteSets, TLC

VARIABLES
    dtp,         \* conn -> the data-channel handler (DTPHandler fields + position)
    sink,        \* conn -> the MultipartPostFile held in file_obj
    written,     \* conn -> the chunks write() has accepted, in call order
    posts,       \* conn -> the HTTP POST attempts made for the conn's sink
    replies,     \* conn -> the responses sent to the client on the control channel
    hist,        \* conn -> counters of sink.close() calls and escaped exceptions
    raised,      \* the exception of the last direct sink call (SpecSink)
    user_table,  \* AccountAuthorizer.user_table: username -> stored 'pwd'
    auth,        \* the last validate_authentication call and its outcome
    load,        \* the start-up path: configuration lines, accounts, position
    fs,          \* the PostFS of a session: its root and its last call
    url          \* MultipartPostFile.url, the configured endpoint

vars == <<dtp, sink, written, posts, replies, hist, raised, user_table, auth, load, fs, url>>

-----------------------------------------------------------------------------
(* Bounds of the model.                                                    *)

MaxWrites == 2

\* The data chunks a write() may carry (the empty chunk included).
Chunks == {"", "a", "bc"}

\* Real pathnames handed to open(), as their segments: root/file, root/sub/file.
Paths == { <<"alice", "f.txt">>, <<"alice", "sub", "g">> }

\* HTTP statuses the endpoint may answer with, on both sides of every edge of 2xx.
Statuses == {199, 200, 204, 299, 300, 404, 500}

\* Connection-level failures of the HTTP relay (socket errors).
ConnErrors == {"refused", "reset", "timeout"}

HttpOutcomes == [kind : {"status"}, status : Statuses, error : {"none"}]
                \cup [kind : {"error"}, status : {0}, error : ConnErrors]

Reason(status) ==
    CASE status = 199 -> "Info"
      [] status = 200 -> "OK"
      [] status = 204 -> "No Content"
      [] status = 299 -> "Custom"
      [] status = 300 -> "Multiple Choices"
      [] status = 404 -> "Not Found"
      [] status = 500 -> "Internal Server Error"
      [] OTHER -> ""

-----------------------------------------------------------------------------
(* MultipartPostFile                                                       *)

BOUNDARY == "----------ThIs_Is_tHe_bouNdaRY_$"
CRLF == "\r\n"

\* os.path.split / os.path.basename on a pathname given by its segments.
PathDir(p) == IF Len(p) = 0 THEN <<>> ELSE SubSeq(p, 1, Len(p) - 1)
PathBase(p) == IF Len(p) = 0 THEN "" ELSE p[Len(p)]

\* A SpooledTemporaryFile: its bytes, its position, and whether it is closed.
NoBuffer == [exists |-> FALSE, data |-> "", pos |-> 0, closed |-> FALSE]
NewBuffer == [exists |-> TRUE, data |-> "", pos |-> 0, closed |-> FALSE]

\* file.write(data) at the end of the file.
BufWrite(b, data) == [b EXCEPT !.data = @ \o data, !.pos = @ + Len(data)]

\* __init__(name)
MultipartPostFile_init(path) ==
    [ username     |-> PathBase(PathDir(path)),
      name         |-> PathBase(path),
      closed       |-> FALSE,
      request_body |-> NoBuffer ]

\* The seven writes of the first write(): the multipart preamble.
WritePreamble(b, username, name) ==
    LET b1 == BufWrite(b, "--" \o BOUNDARY)
        b2 == BufWrite(b1, CRLF)
        b3 == BufWrite(b2, "Content-Disposition: form-data; name=\"" \o username
                           \o "\"; filename=\"" \o name \o "\"")
        b4 == BufWrite(b3, CRLF)
        b5 == BufWrite(b4, "Content-Type: application/octet-stream")
        b6 == BufWrite(b5, CRLF)
    IN  BufWrite(b6, CRLF)

\* write() on a sink whose buffer has been closed raises ValueError.
WriteRaises(s) == s.request_body.exists /\ s.request_body.closed

\* write(data) without the hasattr test: the preamble is written on every call.
MultipartPostFile_write_always_preamble(s, data) ==
    IF WriteRaises(s) THEN s
    ELSE LET b == IF ~s.request_body.exists THEN NewBuffer ELSE s.request_body
         IN  [s EXCEPT !.request_body =
                 BufWrite(WritePreamble(b, s.username, s.name), data)]

\* write(data)
MultipartPostFile_write(s, data) ==
    IF WriteRaises(s) THEN s
    ELSE LET b == IF ~s.request_body.exists
                  THEN WritePreamble(NewBuffer, s.username, s.name)
                  ELSE s.request_body
         IN  [s EXCEPT !.request_body = BufWrite(b, data)]

\* close(): the guard of line 177.
CloseActs(s) == ~s.closed /\ s.request_body.exists

\* close(): the closing boundary, lines 181-183.
WriteClosing(b) ==
    BufWrite(BufWrite(BufWrite(b, CRLF), "--" \o BOUNDARY \o "--"), CRLF)

\* close(): length = self.request_body.tell(), line 185.
MeasuredLength(b) == b.pos

\* close(): the request put on the wire, lines 187-197.
PostRequest(b) ==
    [ method         |-> "POST",
      content_type   |-> "multipart/form-data; boundary=" \o BOUNDARY,
      content_length |-> MeasuredLength(b),
      body           |-> b.data ]

\* The status test rejecting client and server errors only.
StatusRejected_from_400(status) == status >= 400

\* close(): the status test of line 201.
StatusRejected(status) == status \div 100 # 2

\* What close() raises for an outcome of the HTTP exchange.
CloseRaises(o) ==
    IF o.kind = "error" THEN "socket.error"
    ELSE IF StatusRejected(o.status) THEN "UnexpectedHTTPResponse"
    ELSE "none"

\* The finally clause without self.closed = True.
CloseFinally_flag_not_set(s) ==
    [s EXCEPT !.request_body.closed = TRUE]

\* close(): the finally clause, lines 204-206.
CloseFinally(s) ==
    [s EXCEPT !.closed = TRUE, !.request_body.closed = TRUE]

-----------------------------------------------------------------------------
(* The data channel: DTPHandler fields and PostDTPHandlerMixin.close       *)

NoResp == [code |-> 0, status |-> 0, reason |-> ""]
Resp(code) == [code |-> code, status |-> 0, reason |-> ""]

\* '550 Error transferring to HTTP - %s' % error, error = '%d: %s' % (status, reason)
Resp550(status) == [code |-> 550, status |-> status, reason |-> Reason(status)]

NoDtp == [ pc |-> "idle", receive |-> FALSE, transfer_finished |-> FALSE,
           closed |-> FALSE, resp |-> NoResp, file_obj |-> FALSE ]

NoHist == [begun |-> 0, ended |-> 0, escaped |-> <<>>]

\* The guard with the test of _closed inverted.
HookFinalizes_closed_inverted(d, s) ==
    /\ d.receive /\ d.transfer_finished /\ d.closed
    /\ d.file_obj /\ ~s.closed

\* The guard of lines 267-268.
HookFinalizes(d, s) ==
    /\ d.receive /\ d.transfer_finished /\ ~d.closed
    /\ d.file_obj /\ ~s.closed

\* except UnexpectedHTTPResponse, line 271.
HookCatches(exc) == exc = "UnexpectedHTTPResponse"

-----------------------------------------------------------------------------
(* Shared steps                                                            *)

Conns == DOMAIN dtp

NoOutcome == [kind |-> "pending", status |-> 0, error |-> "none"]

\* The connection local of close() (line 187) when close() returns or raises.
\* No line of close() calls connection.close(): the finally clause closes
\* only the buffer.  A refused connect never had a socket; otherwise the
\* socket stays open unless something outside close() (the HTTP library on a
\* "Connection: close" answer or a broken pipe, or the garbage collector)
\* happens to release it.
ConnectionAfter(o) ==
    IF o.kind = "error" /\ o.error = "refused" THEN {"unconnected"}
    ELSE {"open", "released"}

\* sink.close() up to the blocking wait for the HTTP response (lines 181-199).
SendPost(c) ==
    LET b == WriteClosing(sink[c].request_body)
    IN  /\ sink' = [sink EXCEPT ![c].request_body = b]
        /\ posts' = [posts EXCEPT ![c] =
                        Append(@, [request |-> PostRequest(b), outcome |-> NoOutcome,
                                   connection |-> "open"])]

\* The HTTP exchange ends with outcome o; the finally clause runs (lines 199-206).
FinishPost(c, o) ==
    /\ sink' = [sink EXCEPT ![c] = CloseFinally(@)]
    /\ \E h \in ConnectionAfter(o) :
           posts' = [posts EXCEPT ![c][Len(posts[c])].outcome = o,
                                  ![c][Len(posts[c])].connection = h]

-----------------------------------------------------------------------------
(* Spec: one data transfer, driven by the protocol engine.                 *)
(* The engine side is pyftpdlib's DTPHandler, reached through the base     *)
(* classes of PostDTPHandler and the super().close() call of the hook.     *)

\* STOR: the engine opens the file for writing and starts receiving.
Stor(c, path) ==
    /\ dtp[c].pc = "idle"
    /\ sink' = [sink EXCEPT ![c] = MultipartPostFile_init(path)]
    /\ dtp' = [dtp EXCEPT ![c] = [NoDtp EXCEPT !.pc = "receiving",
                                               !.receive = TRUE,
                                               !.file_obj = TRUE]]
    /\ UNCHANGED <<written, posts, replies, hist, raised, user_table, auth, load, fs, url>>

\* LIST: a sending transfer without a file object.
List(c) ==
    /\ dtp[c].pc = "idle"
    /\ dtp' = [dtp EXCEPT ![c] = [NoDtp EXCEPT !.pc = "receiving"]]
    /\ UNCHANGED <<sink, written, posts, replies, hist, raised, user_table, auth, load, fs, url>>

\* handle_read writing into a buffer held at class level: every connection's
\* sink receives the chunk.
Recv_class_level_buffer(c, data) ==
    /\ dtp[c].pc = "receiving"
    /\ dtp[c].receive /\ dtp[c].file_obj
    /\ Len(written[c]) < MaxWrites
    /\ sink' = [d \in Conns |-> MultipartPostFile_write(sink[d], data)]
    /\ written' = [written EXCEPT ![c] = Append(@, data)]
    /\ UNCHANGED <<dtp, posts, replies, hist, raised, user_table, auth, load, fs, url>>

\* handle_read: a chunk arrives on the data connection and is written to the sink.
Recv(c, data) ==
    /\ dtp[c].pc = "receiving"
    /\ dtp[c].receive /\ dtp[c].file_obj
    /\ Len(written[c]) < MaxWrites
    /\ sink' = [sink EXCEPT ![c] = MultipartPostFile_write(@, data)]
    /\ written' = [written EXCEPT ![c] = Append(@, data)]
    /\ UNCHANGED <<dtp, posts, replies, hist, raised, user_table, auth, load, fs, url>>

\* handle_close: the client closed the data connection; the engine signals
\* transfer-finished for a receiving transfer and calls close().
HandleClose(c, sent_all) ==
    /\ dtp[c].pc = "receiving"
    /\ LET fin == dtp[c].receive \/ sent_all
       IN  dtp' = [dtp EXCEPT ![c].transfer_finished = fin,
                              ![c].resp = IF fin THEN Resp(226) ELSE Resp(426),
                              ![c].pc = "close"]
    /\ UNCHANGED <<sink, written, posts, replies, hist, raised, user_table, auth, load, fs, url>>

\* The data connection is closed before transfer-finished is signalled:
\* ABOR or loss of the control connection (no response), or a timeout (421).
Abort(c, r) ==
    /\ dtp[c].pc = "receiving"
    /\ dtp' = [dtp EXCEPT ![c].resp = r, ![c].pc = "close"]
    /\ UNCHANGED <<sink, written, posts, replies, hist, raised, user_table, auth, load, fs, url>>

\* PostDTPHandlerMixin.close, from its entry to the first blocking point.
HookClose(c) ==
    /\ dtp[c].pc = "close"
    /\ IF HookFinalizes(dtp[c], sink[c])
       THEN IF CloseActs(sink[c])
            THEN /\ SendPost(c)
                 /\ dtp' = [dtp EXCEPT ![c].pc = "hook_post"]
                 /\ hist' = [hist EXCEPT ![c].begun = @ + 1]
            ELSE /\ dtp' = [dtp EXCEPT ![c].pc = "super_close"]
                 /\ hist' = [hist EXCEPT ![c].begun = @ + 1, ![c].ended = @ + 1]
                 /\ UNCHANGED <<sink, posts>>
       ELSE /\ dtp' = [dtp EXCEPT ![c].pc = "super_close"]
            /\ UNCHANGED <<sink, posts, hist>>
    /\ UNCHANGED <<written, replies, raised, user_table, auth, load, fs, url>>

\* The POST issued inside the hook ends; the hook handles what close() raises.
HookPostDone(c, o) ==
    /\ dtp[c].pc = "hook_post"
    /\ FinishPost(c, o)
    /\ LET exc == CloseRaises(o)
       IN  IF exc = "none"
           THEN /\ dtp' = [dtp EXCEPT ![c].pc = "super_close"]
                /\ hist' = [hist EXCEPT ![c].ended = @ + 1]
           ELSE IF HookCatches(exc)
           THEN /\ dtp' = [dtp EXCEPT ![c].resp = Resp550(o.status),
                                      ![c].pc = "super_close"]
                /\ hist' = [hist EXCEPT ![c].ended = @ + 1]
           ELSE /\ dtp' = [dtp EXCEPT ![c].pc = "fault"]
                /\ hist' = [hist EXCEPT ![c].ended = @ + 1,
                                        ![c].escaped = Append(@, exc)]
    /\ UNCHANGED <<written, replies, raised, user_table, auth, load, fs, url>>

\* DTPHandler.close: mark closed and send the pending response to the client.
\* The base class responds first and closes the file object afterwards; the
\* hook exists to close the file before that (its docstring, lines 260-264).
SuperRespond(c) ==
    /\ dtp[c].pc = "super_close"
    /\ IF dtp[c].closed
       THEN /\ dtp' = [dtp EXCEPT ![c].pc = "done"]
            /\ UNCHANGED replies
       ELSE /\ dtp' = [dtp EXCEPT ![c].closed = TRUE, ![c].pc = "super_file"]
            /\ replies' = [replies EXCEPT ![c] =
                              IF dtp[c].resp = NoResp THEN @ ELSE Append(@, dtp[c].resp)]
    /\ UNCHANGED <<sink, written, posts, hist, raised, user_table, auth, load, fs, url>>

\* DTPHandler.close: close any file object that is still open.
SuperFileClose(c) ==
    /\ dtp[c].pc = "super_file"
    /\ IF dtp[c].file_obj /\ ~sink[c].closed
       THEN IF CloseActs(sink[c])
            THEN /\ SendPost(c)
                 /\ dtp' = [dtp EXCEPT ![c].pc = "teardown_post"]
                 /\ hist' = [hist EXCEPT ![c].begun = @ + 1]
            ELSE /\ dtp' = [dtp EXCEPT ![c].pc = "done"]
                 /\ hist' = [hist EXCEPT ![c].begun = @ + 1, ![c].ended = @ + 1]
                 /\ UNCHANGED <<sink, posts>>
       ELSE /\ dtp' = [dtp EXCEPT ![c].pc = "done"]
            /\ UNCHANGED <<sink, posts, hist>>
    /\ UNCHANGED <<written, replies, raised, user_table, auth, load, fs, url>>

\* The POST issued by the engine's own file close ends; nothing catches there.
TeardownPostDone(c, o) ==
    /\ dtp[c].pc = "teardown_post"
    /\ FinishPost(c, o)
    /\ LET exc == CloseRaises(o)
       IN  IF exc = "none"
           THEN /\ dtp' = [dtp EXCEPT ![c].pc = "done"]
                /\ hist' = [hist EXCEPT ![c].ended = @ + 1]
           ELSE /\ dtp' = [dtp EXCEPT ![c].pc = "fault"]
                /\ hist' = [hist EXCEPT ![c].ended = @ + 1,
                                        ![c].escaped = Append(@, exc)]
    /\ UNCHANGED <<written, replies, raised, user_table, auth, load, fs, url>>

\* handle_error: an exception left close(); the engine sets 426 and closes again.
HandleError(c) ==
    /\ dtp[c].pc = "fault"
    /\ dtp' = [dtp EXCEPT ![c].resp = Resp(426), ![c].pc = "close"]
    /\ UNCHANGED <<sink, written, posts, replies, hist, raised, user_table, auth, load, fs, url>>

NoAuth == [username |-> "", password |-> "", raised |-> "none", msg |-> ""]

\* No configuration is being loaded.
NoLoad == [pc |-> "none", config |-> <<>>, lines |-> <<>>, accounts |-> <<>>,
           items |-> {}, error |-> "none"]

\* No filesystem call has been made.
NoPathIn == [slashes |-> 0, segs |-> <<>>, trail |-> FALSE]
NoFs == [root |-> "", root_in |-> NoPathIn, op |-> "none", path |-> "",
         path_in |-> NoPathIn, mode |-> "", result |-> FALSE,
         raised |-> "none", reason |-> "", created |-> FALSE]

\* The endpoint start_ftp_server stores in MultipartPostFile.url.
http_url == "http://sink/upload"

Init ==
    /\ dtp = [c \in {1} |-> NoDtp]
    /\ sink = [c \in {1} |-> MultipartPostFile_init(<<>>)]
    /\ written = [c \in {1} |-> <<>>]
    /\ posts = [c \in {1} |-> <<>>]
    /\ replies = [c \in {1} |-> <<>>]
    /\ hist = [c \in {1} |-> NoHist]
    /\ raised = "none"
    /\ user_table = <<>>
    /\ auth = NoAuth
    /\ load = NoLoad
    /\ fs = NoFs
    /\ url = http_url

Next ==
    \/ \E c \in Conns, path \in Paths : Stor(c, path)
    \/ \E c \in Conns : List(c)
    \/ \E c \in Conns, data \in Chunks : Recv(c, data)
    \/ \E c \in Conns, sent_all \in BOOLEAN : HandleClose(c, sent_all)
    \/ \E c \in Conns, r \in {NoResp, Resp(421)} : Abort(c, r)
    \/ \E c \in Conns : HookClose(c)
    \/ \E c \in Conns, o \in HttpOutcomes : HookPostDone(c, o)
    \/ \E c \in Conns : SuperRespond(c)
    \/ \E c \in Conns : SuperFileClose(c)
    \/ \E c \in Conns, o \in HttpOutcomes : TeardownPostDone(c, o)
    \/ \E c \in Conns : HandleError(c)

Spec == Init /\ [][Next]_vars

-----------------------------------------------------------------------------
(* SpecSink: one sink, driven by any sequence of write() and close() calls. *)

MaxCloses == 3

\* A caller invokes write(data) on the sink.
SinkWriteCall(c, data) ==
    /\ dtp[c].pc = "direct"
    /\ IF WriteRaises(sink[c])
       THEN /\ raised' = "ValueError"
            /\ UNCHANGED <<sink, written>>
       ELSE /\ Len(written[c]) < MaxWrites
            /\ raised' = "none"
            /\ sink' = [sink EXCEPT ![c] = MultipartPostFile_write(@, data)]
            /\ written' = [written EXCEPT ![c] = Append(@, data)]
    /\ UNCHANGED <<dtp, posts, replies, hist, user_table, auth, load, fs, url>>

\* A caller invokes close() on the sink; the HTTP exchange, if one is made,
\* ends with outcome o before close() returns or raises.
SinkCloseCall(c, o) ==
    /\ dtp[c].pc = "direct"
    /\ hist[c].begun < MaxCloses
    /\ IF CloseActs(sink[c])
       THEN LET b == WriteClosing(sink[c].request_body)
            IN  /\ sink' = [sink EXCEPT ![c] =
                               CloseFinally([@ EXCEPT !.request_body = b])]
                /\ \E h \in ConnectionAfter(o) :
                       posts' = [posts EXCEPT ![c] =
                                    Append(@, [request |-> PostRequest(b), outcome |-> o,
                                               connection |-> h])]
                /\ raised' = CloseRaises(o)
       ELSE /\ raised' = "none"
            /\ UNCHANGED <<sink, posts>>
    /\ hist' = [hist EXCEPT ![c].begun = @ + 1, ![c].ended = @ + 1]
    /\ UNCHANGED <<dtp, written, replies, user_table, auth, load, fs, url>>

InitSink ==
    /\ dtp = [c \in {1} |-> [NoDtp EXCEPT !.pc = "direct", !.file_obj = TRUE]]
    /\ \E path \in Paths : sink = [c \in {1} |-> MultipartPostFile_init(path)]
    /\ written = [c \in {1} |-> <<>>]
    /\ posts = [c \in {1} |-> <<>>]
    /\ replies = [c \in {1} |-> <<>>]
    /\ hist = [c \in {1} |-> NoHist]
    /\ raised = "none"
    /\ user_table = <<>>
    /\ auth = NoAuth
    /\ load = NoLoad
    /\ fs = NoFs
    /\ url = http_url

NextSink ==
    \/ \E c \in Conns, data \in Chunks : SinkWriteCall(c, data)
    \/ \E c \in Conns, o \in HttpOutcomes : SinkCloseCall(c, o)

SpecSink == InitSink /\ [][NextSink]_vars

-----------------------------------------------------------------------------
(* AccountAuthorizer                                                       *)

\* The keys of hash_funcs, lines 287-294.
hash_funcs == {"md5", "sha1", "sha224", "sha256", "sha384", "sha512"}

\* The passwords a client may present.
Passwords == {"secret", "wrong", "x-secret"}

\* hash_func(password).hexdigest().  The digests are abstract; md5 and sha1 are
\* made to agree on every input, and so are the sha2 family, so that nothing
\* but the tag of a record tells two algorithms apart.
hexdigest(hash_format, password) ==
    IF hash_format \in {"md5", "sha1"} THEN "x-" \o password ELSE "y-" \o password

\* str.startswith
StartsWith(s, prefix) ==
    Len(s) >= Len(prefix) /\ SubSeq(s, 1, Len(prefix)) = prefix

\* DummyAuthorizer.has_user
has_user(table, username) == username \in DOMAIN table

AuthOk == [raised |-> "none", msg |-> ""]
AuthenticationFailed(msg) == [raised |-> "AuthenticationFailed", msg |-> msg]

\* The comparison of lines 349-350 for the rewritten password.
CheckPassword(password, stored_password) ==
    IF password # stored_password
    THEN AuthenticationFailed("Authentication failed.")
    ELSE AuthOk

\* validate_authentication(username, password, handler): the set of outcomes
\* it can end with (one for each hash format the dictionary scan can stop at).
validate_authentication(table, username, password) ==
    IF ~has_user(table, username)
    THEN { AuthenticationFailed(IF username = "anonymous"
                                THEN "Anonymous access not allowed."
                                ELSE "Authentication failed.") }
    ELSE IF username # "anonymous"
    THEN LET stored_password == table[username]
             formats == {f \in hash_funcs : StartsWith(stored_password, f \o ":")}
         IN  IF StartsWith(stored_password, "plain:")
             THEN { CheckPassword("plain:" \o password, stored_password) }
             ELSE IF formats = {}
             THEN { AuthenticationFailed(
                        "Unexpected password format in configuration file.") }
             ELSE { CheckPassword(f \o ":" \o hexdigest(f, password), stored_password)
                    : f \in formats }
    ELSE { AuthOk }

-----------------------------------------------------------------------------
(* SpecAuth: validate_authentication over bounded account tables.          *)

\* The usernames of the configuration and those a client may present.
TableUsers == {"anonymous", "alice"}
Usernames == TableUsers \cup {"bob"}

\* Stored records: every recognized tag over two passwords, a digest stored
\* under another algorithm's tag, and records whose tag is not recognized.
StoredRecords ==
    { "plain:" \o p : p \in {"secret", "x-secret"} }
    \cup { f \o ":" \o hexdigest(f, "secret") : f \in hash_funcs }
    \cup { "crypt:secret", "secret", "PLAIN:secret", "md5" }

\* A client logs in: the engine calls validate_authentication.
Login(username, password) ==
    /\ auth.username = ""
    /\ \E outcome \in validate_authentication(user_table, username, password) :
          auth' = [username |-> username, password |-> password,
                   raised |-> outcome.raised, msg |-> outcome.msg]
    /\ UNCHANGED <<dtp, sink, written, posts, replies, hist, raised, user_table, load, fs, url>>

InitAuth ==
    /\ dtp = [c \in {1} |-> NoDtp]
    /\ sink = [c \in {1} |-> MultipartPostFile_init(<<>>)]
    /\ written = [c \in {1} |-> <<>>]
    /\ posts = [c \in {1} |-> <<>>]
    /\ replies = [c \in {1} |-> <<>>]
    /\ hist = [c \in {1} |-> NoHist]
    /\ raised = "none"
    /\ \E D \in SUBSET TableUsers : user_table \in [D -> StoredRecords]
    /\ auth = NoAuth
    /\ load = NoLoad
    /\ fs = NoFs
    /\ url = http_url

NextAuth ==
    \E username \in Usernames, password \in Passwords : Login(username, password)

SpecAuth == InitAuth /\ [][NextAuth]_vars

-----------------------------------------------------------------------------
(* Properties                                                              *)

\* A receiving transfer whose end the engine has signalled.
FinishedUpload(c) ==
    dtp[c].receive /\ dtp[c].transfer_finished /\ dtp[c].file_obj

Pending(c) == \E i \in 1..Len(posts[c]) : posts[c][i].outcome.kind = "pending"

\* An outcome of the HTTP exchange that makes close() fail.
Failed(o) == o.kind = "error" \/ (o.kind = "status" /\ o.status \notin 200..299)

\* C1: once the client has been sent the response of a finished receiving
\* transfer, a close() of its sink has already run to completion and no POST
\* is outstanding.
C1_FinalizeBeforeResponse ==
    \A c \in Conns :
        (replies[c] # <<>> /\ FinishedUpload(c))
            => (hist[c].ended >= 1 /\ hist[c].begun = hist[c].ended /\ ~Pending(c))

\* A finished upload whose POST was answered before the client got its 226.
C1_Witness ==
    \E c \in Conns :
        /\ FinishedUpload(c) /\ Len(written[c]) >= 1
        /\ replies[c] = <<Resp(226)>>
        /\ Len(posts[c]) = 1 /\ posts[c][1].outcome.kind = "status"

\* C2: a finished upload has issued exactly one POST when its data channel
\* is torn down, for any number of writes.
C2_ExactlyOnePost ==
    \A c \in Conns :
        (dtp[c].pc = "done" /\ FinishedUpload(c)) => Len(posts[c]) = 1

\* C3: at most one POST attempt is made on a sink; an attempt leaves the sink
\* closed whatever its outcome, and a close() on a closed sink sends nothing,
\* raises nothing and changes nothing.
C3_CloseIdempotent ==
    /\ [](\A c \in Conns : /\ Len(posts[c]) <= 1
                           /\ (Len(posts[c]) = 1 => sink[c].closed))
    /\ [][\A c \in Conns :
            (sink[c].closed /\ hist'[c].begun > hist[c].begun)
                => (posts' = posts /\ sink' = sink /\ raised' = "none")]_vars

\* A second close() after a POST that failed at connection level.
C3_Witness ==
    \E c \in Conns :
        /\ hist[c].begun >= 2 /\ raised = "none"
        /\ Len(posts[c]) = 1 /\ posts[c][1].outcome.kind = "error"

RECURSIVE Concat(_)
Concat(chunks) ==
    IF chunks = <<>> THEN "" ELSE Head(chunks) \o Concat(Tail(chunks))

ExpectedPreamble(s) ==
    "--" \o BOUNDARY \o CRLF
    \o "Content-Disposition: form-data; name=\"" \o s.username
    \o "\"; filename=\"" \o s.name \o "\"" \o CRLF
    \o "Content-Type: application/octet-stream" \o CRLF \o CRLF

ExpectedClosing == CRLF \o "--" \o BOUNDARY \o "--" \o CRLF

\* C4: the body of the POST is the preamble, the written chunks in order and
\* the closing boundary, and Content-Length is the length of that body.
C4_BodyAndLength ==
    \A c \in Conns : \A i \in 1..Len(posts[c]) :
        LET req == posts[c][i].request
        IN  /\ req.body = ExpectedPreamble(sink[c]) \o Concat(written[c])
                          \o ExpectedClosing
            /\ req.content_length = Len(req.body)

\* Two non-empty chunks written and relayed.
C4_Witness ==
    \E c \in Conns :
        /\ written[c] = <<"a", "bc">>
        /\ Len(posts[c]) = 1

\* C5: when the POST of a finished upload is answered with a status, the
\* client gets one response: 226 for 2xx, otherwise 550 with status and reason.
C5_OutcomeReflectsStatus ==
    \A c \in Conns :
        (/\ dtp[c].pc = "done" /\ FinishedUpload(c)
         /\ Len(posts[c]) = 1 /\ posts[c][1].outcome.kind = "status")
        => LET st == posts[c][1].outcome.status
           IN  /\ Len(replies[c]) = 1
               /\ IF st \in 200..299
                  THEN replies[c][1] = Resp(226)
                  ELSE replies[c][1] = [code |-> 550, status |-> st,
                                        reason |-> Reason(st)]

\* Status 500 reported to the client as 550.
C5_Witness ==
    \E c \in Conns :
        /\ dtp[c].pc = "done" /\ FinishedUpload(c)
        /\ Len(posts[c]) = 1 /\ posts[c][1].outcome.status = 500
        /\ replies[c] = <<[code |-> 550, status |-> 500,
                           reason |-> "Internal Server Error"]>>

\* C6: whatever makes the POST of a finished upload fail, the hook turns it
\* into a 550 response and no exception leaves the hook.
C6_HookCapturesEveryFailure ==
    \A c \in Conns :
        (/\ FinishedUpload(c)
         /\ Len(posts[c]) = 1 /\ Failed(posts[c][1].outcome))
        => (hist[c].escaped = <<>> /\ dtp[c].resp.code = 550)

\* C7: a data connection closed before transfer-finished never leads to a POST.
C7_NoPostWithoutFinish ==
    \A c \in Conns :
        (dtp[c].receive /\ ~dtp[c].transfer_finished) => posts[c] = <<>>

\* C8: a login as "anonymous" fails for every password and every table.
C8_AnonymousAlwaysFails ==
    auth.username = "anonymous" => auth.raised = "AuthenticationFailed"

\* The record of a known account carries a recognized tag.
Recognized(stored) ==
    \E t \in hash_funcs \cup {"plain"} : StartsWith(stored, t \o ":")

\* The presented password transformed under tag t and prefixed with t.
Tagged(t, password) ==
    t \o ":" \o (IF t = "plain" THEN password ELSE hexdigest(t, password))

\* C9: for a known account with a recognized tag t the login succeeds exactly
\* when t:transform(password) is the whole stored record; an unknown
\* username always fails.
C9_VerifyByTag ==
    /\ (auth.username # "" /\ auth.username \notin DOMAIN user_table)
            => auth.raised = "AuthenticationFailed"
    /\ (auth.username \in DOMAIN user_table /\ Recognized(user_table[auth.username]))
            => \A t \in hash_funcs \cup {"plain"} :
                    StartsWith(user_table[auth.username], t \o ":")
                        => ((auth.raised = "none")
                                <=> Tagged(t, auth.password) = user_table[auth.username])

\* C10: for a known account whose tag is not recognized the login fails, with
\* an outcome other than the generic authentication failure.
C10_BadRecordDistinct ==
    (auth.username \in DOMAIN user_table /\ ~Recognized(user_table[auth.username]))
        => /\ auth.raised # "none"
           /\ [raised |-> auth.raised, msg |-> auth.msg]
                  # AuthenticationFailed("Authentication failed.")

-----------------------------------------------------------------------------
(* SpecLoad: the start-up path, read_configuration_file followed by the    *)
(* construction of the AccountAuthorizer.                                  *)

MaxUserLines == 3

\* The 'user' lines a configuration file may hold, as (name, password record).
UserLines == {"alice", "bob"} \X {"plain:a", "plain:b"}

\* The configuration files of at most n user lines.
RECURSIVE ConfigFiles(_)
ConfigFiles(n) ==
    IF n = 0 THEN {<<>>}
    ELSE LET shorter == ConfigFiles(n - 1)
         IN  shorter \cup {Append(f, l) : f \in shorter, l \in UserLines}

\* d[k] = v on a dictionary.
DictSet(d, k, v) == [x \in DOMAIN d \cup {k} |-> IF x = k THEN v ELSE d[x]]

\* read_configuration_file: one 'user' line, config['accounts'][name] = password.
ReadUserLine ==
    /\ load.pc = "reading"
    /\ load.lines # <<>>
    /\ LET name == Head(load.lines)[1]
           password == Head(load.lines)[2]
       IN  load' = [load EXCEPT !.accounts = DictSet(@, name, password),
                                !.lines = Tail(@)]
    /\ UNCHANGED <<dtp, sink, written, posts, replies, hist, raised, user_table,
                   auth, fs, url>>

\* read_configuration_file returns; AccountAuthorizer.__init__ starts on
\* accounts.items() with an empty user_table.
ConstructAuthorizer ==
    /\ load.pc = "reading"
    /\ load.lines = <<>>
    /\ load' = [load EXCEPT !.pc = "constructing", !.items = DOMAIN load.accounts]
    /\ UNCHANGED <<dtp, sink, written, posts, replies, hist, raised, user_table,
                   auth, fs, url>>

\* add_user(name, password) for one item of accounts, in any order.
add_user(username) ==
    /\ load.pc = "constructing"
    /\ username \in load.items
    /\ IF has_user(user_table, username)
       THEN /\ load' = [load EXCEPT !.pc = "fatal", !.error = "ValueError"]
            /\ UNCHANGED user_table
       ELSE /\ load' = [load EXCEPT !.items = @ \ {username}]
            /\ user_table' = DictSet(user_table, username, load.accounts[username])
    /\ UNCHANGED <<dtp, sink, written, posts, replies, hist, raised, auth, fs, url>>

\* start_ftp_server: the authorizer is built and the server starts serving.
ServeForever ==
    /\ load.pc = "constructing"
    /\ load.items = {}
    /\ load' = [load EXCEPT !.pc = "serving"]
    /\ UNCHANGED <<dtp, sink, written, posts, replies, hist, raised, user_table,
                   auth, fs, url>>

InitLoad ==
    /\ dtp = [c \in {1} |-> NoDtp]
    /\ sink = [c \in {1} |-> MultipartPostFile_init(<<>>)]
    /\ written = [c \in {1} |-> <<>>]
    /\ posts = [c \in {1} |-> <<>>]
    /\ replies = [c \in {1} |-> <<>>]
    /\ hist = [c \in {1} |-> NoHist]
    /\ raised = "none"
    /\ user_table = <<>>
    /\ auth = NoAuth
    /\ \E f \in ConfigFiles(MaxUserLines) :
          load = [NoLoad EXCEPT !.pc = "reading", !.config = f, !.lines = f]
    /\ fs = NoFs
    /\ url = http_url

NextLoad ==
    \/ ReadUserLine
    \/ ConstructAuthorizer
    \/ \E username \in {"alice", "bob"} : add_user(username)
    \/ ServeForever

SpecLoad == InitLoad /\ [][NextLoad]_vars

\* A configuration that names some user twice.
HasDuplicate(f) ==
    \E i, j \in 1..Len(f) : i # j /\ f[i][1] = f[j][1]

\* C11: a configuration that holds the same username twice never gets as far
\* as a serving server; its load ends in a fatal error.
C11_DuplicateIsFatal ==
    HasDuplicate(load.config) => load.pc # "serving"

-----------------------------------------------------------------------------
(* PostFS                                                                  *)

Min(a, b) == IF a < b THEN a ELSE b

\* str.split('/'): the pieces of s from position i on, cur being the piece read.
RECURSIVE SplitFrom(_, _, _)
SplitFrom(s, i, cur) ==
    IF i > Len(s) THEN <<cur>>
    ELSE IF SubSeq(s, i, i) = "/" THEN <<cur>> \o SplitFrom(s, i + 1, "")
    ELSE SplitFrom(s, i + 1, cur \o SubSeq(s, i, i))

StrSplit(s) == SplitFrom(s, 1, "")

\* '/'.join(comps)
RECURSIVE SlashJoin(_)
SlashJoin(comps) ==
    IF comps = <<>> THEN ""
    ELSE IF Len(comps) = 1 THEN comps[1]
    ELSE comps[1] \o "/" \o SlashJoin(Tail(comps))

\* str.endswith
EndsWith(s, suffix) ==
    Len(s) >= Len(suffix) /\ SubSeq(s, Len(s) - Len(suffix) + 1, Len(s)) = suffix

\* posixpath.normpath: the number of leading slashes kept (0, 1 or 2).
InitialSlashes(path) ==
    IF ~StartsWith(path, "/") THEN 0
    ELSE IF StartsWith(path, "//") /\ ~StartsWith(path, "///") THEN 2
    ELSE 1

\* posixpath.normpath: the loop over the components.
RECURSIVE NormComps(_, _, _)
NormComps(comps, initial_slashes, new_comps) ==
    IF comps = <<>> THEN new_comps
    ELSE LET comp == Head(comps)
             n == Len(new_comps)
         IN  IF comp \in {"", "."}
             THEN NormComps(Tail(comps), initial_slashes, new_comps)
             ELSE IF \/ comp # ".."
                     \/ (initial_slashes = 0 /\ n = 0)
                     \/ (n > 0 /\ new_comps[n] = "..")
             THEN NormComps(Tail(comps), initial_slashes, Append(new_comps, comp))
             ELSE IF n > 0
             THEN NormComps(Tail(comps), initial_slashes, SubSeq(new_comps, 1, n - 1))
             ELSE NormComps(Tail(comps), initial_slashes, new_comps)

\* os.path.normpath
normpath(path) ==
    IF path = "" THEN "."
    ELSE LET initial_slashes == InitialSlashes(path)
             joined == SlashJoin(NormComps(StrSplit(path), initial_slashes, <<>>))
             result == (IF initial_slashes = 2 THEN "//"
                        ELSE IF initial_slashes = 1 THEN "/" ELSE "") \o joined
         IN  IF result = "" THEN "." ELSE result

\* validpath compared on the bare strings, without the separator appended.
validpath_bare_prefix(fs_root, path) ==
    LET root == normpath(fs_root)
        norm == normpath(path)
    IN  SubSeq(norm, 1, Min(Len(root), Len(norm))) = root

\* PostFS.validpath(path), for a filesystem whose root is fs_root.
validpath(fs_root, path) ==
    LET root0 == normpath(fs_root)
        path0 == normpath(path)
        root == IF ~EndsWith(root0, "/") THEN root0 \o "/" ELSE root0
        norm == IF ~EndsWith(path0, "/") THEN path0 \o "/" ELSE path0
    IN  SubSeq(norm, 1, Min(Len(root), Len(norm))) = root

\* The open modes PostFS.open with only the read modes refused.
OpenAllowed_append_too(mode) == mode \in {"w", "wb", "a", "ab"}

\* PostFS.open: the mode test of line 61.
OpenAllowed(mode) == mode \in {"w", "wb"}

\* The operations that raise FilesystemError, lines 65-118.
DisabledOps == {"mkstemp", "mkdir", "rmdir", "remove", "rename", "chmod",
                "stat", "lstat", "readlink", "getsize", "getmtime"}

\* The operations that return without raising and without any effect.
QuietOps == {"chdir", "listdir", "isfile", "islink", "isdir", "realpath", "lexists"}

\* The message of the FilesystemError each disabled operation raises.
DisabledReason(op) ==
    CASE op = "mkstemp"  -> "mkstemp: filesystem operations are disabled."
      [] op = "mkdir"    -> "mkdir: filesystem operations are disabled."
      [] op = "rmdir"    -> "rmdir: filesystem operations are disabled."
      [] op = "remove"   -> "remove: filesystem operations are disabled."
      [] op = "rename"   -> "rename: filesystem operations are disabled."
      [] op = "chmod"    -> "chmod: filesystem operations are disabled."
      [] op = "stat"     -> "stat: filesystem operations are disabled."
      [] op = "lstat"    -> "lstat: filesystem operations are disabled."
      [] op = "readlink" -> "readlink: filesystem operations are disabled."
      [] op = "getsize"  -> "getsize: filesystem operations are disabled."
      [] op = "getmtime" -> "getmtime: filesystem operations are disabled."

\* 'open mode %s: filesystem operations are disabled.' % mode
OpenReason(mode) == "open mode " \o mode \o ": filesystem operations are disabled."

-----------------------------------------------------------------------------
(* SpecFS: the calls the engine makes on the PostFS of one session.        *)

MaxSegs == 3

\* The segments pathnames are built from.
SegNames == {"alice", "alice2", "x", "..", "."}

RECURSIVE SegSeqs(_)
SegSeqs(n) ==
    IF n = 0 THEN {<<>>}
    ELSE LET shorter == SegSeqs(n - 1)
         IN  shorter \cup {Append(q, g) : q \in shorter, g \in SegNames}

\* A pathname: leading slashes, segments, and a trailing slash or none.
PathInputs ==
    {i \in [slashes : 0..2, segs : SegSeqs(MaxSegs), trail : BOOLEAN] :
        i.trail => i.segs # <<>>}

\* The roots of a session's filesystem: the account's home, written as
\* alice, alice/, ./alice and /alice.
RootInputs ==
    { [slashes |-> 0, segs |-> <<"alice">>, trail |-> FALSE],
      [slashes |-> 0, segs |-> <<"alice">>, trail |-> TRUE],
      [slashes |-> 0, segs |-> <<".", "alice">>, trail |-> FALSE],
      [slashes |-> 1, segs |-> <<"alice">>, trail |-> FALSE] }

RECURSIVE SegText(_)
SegText(segs) ==
    IF segs = <<>> THEN ""
    ELSE Head(segs) \o (IF Len(segs) > 1 THEN "/" \o SegText(Tail(segs)) ELSE "")

\* The pathname as the string the code receives.
PathString(i) ==
    (CASE i.slashes = 0 -> "" [] i.slashes = 1 -> "/" [] i.slashes = 2 -> "//")
    \o SegText(i.segs) \o (IF i.trail THEN "/" ELSE "")

\* The real pathnames the engine opens, and the modes it opens them with.
OpenPaths == {"alice/f.txt", "alice/sub/g", "alice/alice2/f.txt", "alice2/f.txt"}
OpPaths == {"alice", "alice/f.txt"}
OpenModes == {"w", "wb", "a", "ab", "r", "rb", "r+b"}

\* The engine calls validpath(path), as the first call on the filesystem.
CallValidpath(i) ==
    /\ fs.root # "" /\ fs.op = "none"
    /\ fs' = [fs EXCEPT !.op = "validpath", !.path = PathString(i), !.path_in = i,
                        !.mode = "", !.raised = "none", !.reason = "",
                        !.created = FALSE,
                        !.result = validpath(fs.root, PathString(i))]
    /\ UNCHANGED <<dtp, sink, written, posts, replies, hist, raised, user_table,
                   auth, load, url>>

\* The engine calls one of the operations other than open and validpath.
CallOp(op, path) ==
    /\ fs.root # ""
    /\ fs' = [fs EXCEPT !.op = op, !.path = path, !.path_in = NoPathIn,
                        !.mode = "", !.result = FALSE, !.created = FALSE,
                        !.raised = IF op \in DisabledOps
                                   THEN "FilesystemError" ELSE "none",
                        !.reason = IF op \in DisabledOps
                                   THEN DisabledReason(op) ELSE ""]
    /\ UNCHANGED <<dtp, sink, written, posts, replies, hist, raised, user_table,
                   auth, load, url>>

\* The engine calls open(filename, mode).
CallOpen(filename, mode) ==
    /\ fs.root # ""
    /\ IF ~OpenAllowed(mode)
       THEN /\ fs' = [fs EXCEPT !.op = "open", !.path = filename,
                                !.path_in = NoPathIn, !.mode = mode,
                                !.result = FALSE, !.created = FALSE,
                                !.raised = "FilesystemError",
                                !.reason = OpenReason(mode)]
            /\ UNCHANGED sink
       ELSE /\ fs' = [fs EXCEPT !.op = "open", !.path = filename,
                                !.path_in = NoPathIn, !.mode = mode,
                                !.result = FALSE, !.created = TRUE,
                                !.raised = "none", !.reason = ""]
            /\ sink' = [sink EXCEPT ![1] = MultipartPostFile_init(StrSplit(filename))]
    /\ UNCHANGED <<dtp, written, posts, replies, hist, raised, user_table,
                   auth, load, url>>

InitFS ==
    /\ dtp = [c \in {1} |-> NoDtp]
    /\ sink = [c \in {1} |-> MultipartPostFile_init(<<>>)]
    /\ written = [c \in {1} |-> <<>>]
    /\ posts = [c \in {1} |-> <<>>]
    /\ replies = [c \in {1} |-> <<>>]
    /\ hist = [c \in {1} |-> NoHist]
    /\ raised = "none"
    /\ user_table = <<>>
    /\ auth = NoAuth
    /\ load = NoLoad
    /\ \E r \in RootInputs : fs = [NoFs EXCEPT !.root = PathString(r), !.root_in = r]
    /\ url = http_url

NextFS ==
    \/ \E i \in PathInputs : CallValidpath(i)
    \/ \E op \in DisabledOps \cup QuietOps, path \in OpPaths : CallOp(op, path)
    \/ \E filename \in OpenPaths, mode \in OpenModes : CallOpen(filename, mode)

SpecFS == InitFS /\ [][NextFS]_vars

-----------------------------------------------------------------------------
(* Properties of PostFS                                                    *)

\* The segments of a pathname once "." and ".." are resolved: ".." removes the
\* segment before it, is dropped at the top of an absolute pathname, and is
\* kept at the front of a relative one.
RECURSIVE Resolved(_, _, _)
Resolved(segs, absolute, done) ==
    IF segs = <<>> THEN done
    ELSE LET g == Head(segs)
             n == Len(done)
         IN  IF g = "." THEN Resolved(Tail(segs), absolute, done)
             ELSE IF g # ".." THEN Resolved(Tail(segs), absolute, Append(done, g))
             ELSE IF n > 0 /\ done[n] # ".."
             THEN Resolved(Tail(segs), absolute, SubSeq(done, 1, n - 1))
             ELSE IF absolute THEN Resolved(Tail(segs), absolute, done)
             ELSE Resolved(Tail(segs), absolute, Append(done, g))

ResolvedSegs(i) == Resolved(i.segs, i.slashes > 0, <<>>)

\* p is the root or lies below it, segment by segment, from the same origin.
AtOrBelow(root, p) ==
    LET r == ResolvedSegs(root)
        q == ResolvedSegs(p)
    IN  /\ root.slashes = p.slashes
        /\ Len(q) >= Len(r)
        /\ SubSeq(q, 1, Len(r)) = r

\* C12: validpath(p) is true exactly when p, with "." and ".." resolved, is
\* the normalized root of the account or lies below it segment-wise.
C12_ValidpathIsContainment ==
    fs.op = "validpath" => (fs.result <=> AtOrBelow(fs.root_in, fs.path_in))

\* validpath has refused a sibling that shares the root as a string prefix.
C12_Witness ==
    /\ fs.op = "validpath" /\ fs.root = "alice"
    /\ fs.path = "alice2/x" /\ ~fs.result

\* validpath has accepted a pathname whose ".." stays below the root.
C12_WitnessAccepted ==
    /\ fs.op = "validpath" /\ fs.root = "alice"
    /\ fs.path = "alice/x/.." /\ fs.result


\* A call that the filesystem must deny.
Denied ==
    fs.op \in DisabledOps \/ (fs.op = "open" /\ fs.mode \notin {"w", "wb"})

\* C13: every disabled operation, and open() with a mode other than 'w' and
\* 'wb', raises FilesystemError with a reason naming the operation and has no
\* effect on sinks, buffers or POSTs; a sink is created by open() with 'w' or
\* 'wb' only.
C13_OnlyOpenForWrite ==
    /\ [](/\ Denied => (/\ fs.raised = "FilesystemError"
                        /\ StartsWith(fs.reason, fs.op)
                        /\ ~fs.created)
          /\ fs.created => (fs.op = "open" /\ fs.mode \in {"w", "wb"})
          /\ \A c \in Conns : posts[c] = <<>> /\ ~sink[c].request_body.exists)
    /\ [][(sink' # sink) => (fs'.op = "open" /\ fs'.mode \in {"w", "wb"})]_vars

\* open() with mode 'ab' has been denied after a sink had been created.
C13_Witness ==
    /\ fs.op = "open" /\ fs.mode = "ab" /\ fs.raised = "FilesystemError"
    /\ fs.reason = "open mode ab: filesystem operations are disabled."
    /\ sink[1].name = "f.txt"

\* The name of the account whose home the filesystem is rooted at.
AccountName == LET r == ResolvedSegs(fs.root_in) IN r[Len(r)]

\* C16: a sink opened for a pathname validpath accepts is named after the
\* account (form field) and after the last segment of the pathname (filename).
C16_SinkNamedAfterAccount ==
    (fs.op = "open" /\ fs.created /\ validpath(fs.root, fs.path))
        => LET segs == StrSplit(fs.path)
           IN  /\ sink[1].username = AccountName
               /\ sink[1].name = segs[Len(segs)]

-----------------------------------------------------------------------------
(* Properties of the sink after finalize                                   *)

\* C14: once close() has finalized the sink (closed flag true), every further
\* call on it, write(chunk) or close(), raises nothing and changes neither
\* the buffered body nor the number of POSTs.
C14_AfterCloseIsNoOp ==
    [][\A c \in Conns :
         sink[c].closed
             => (raised' = "none" /\ sink' = sink /\ posts' = posts)]_vars

\* C15: when a finalizing close() has returned or raised, whatever the
\* outcome of the exchange, the staging buffer is closed and the HTTP
\* connection opened for the POST is not left open.
C15_BothReleased ==
    \A c \in Conns : \A i \in 1..Len(posts[c]) :
        posts[c][i].outcome.kind # "pending"
            => /\ sink[c].request_body.closed
               /\ posts[c][i].connection # "open"


-----------------------------------------------------------------------------
(* SpecIso: two data connections served at the same time, each by its own  *)
(* handler, filesystem and sink; their steps interleave freely.            *)

\* The chunks, pathnames and HTTP outcomes of the two uploads.
IsoChunks == {"a", "bc"}
IsoPath(c) == IF c = 1 THEN <<"alice", "f.txt">> ELSE <<"bob", "f.txt">>
IsoOutcomes ==
    { o \in HttpOutcomes : \/ o.kind = "status" /\ o.status \in {200, 500}
                           \/ o.kind = "error" /\ o.error = "reset" }

\* The account table built at start-up for the two accounts.
IsoTable == << <<"alice", "plain:a">>, <<"bob", "plain:b">> >>

InitIso ==
    /\ dtp = [c \in {1, 2} |-> NoDtp]
    /\ sink = [c \in {1, 2} |-> MultipartPostFile_init(<<>>)]
    /\ written = [c \in {1, 2} |-> <<>>]
    /\ posts = [c \in {1, 2} |-> <<>>]
    /\ replies = [c \in {1, 2} |-> <<>>]
    /\ hist = [c \in {1, 2} |-> NoHist]
    /\ raised = "none"
    /\ user_table = IsoTable
    /\ auth = NoAuth
    /\ load = NoLoad
    /\ fs = NoFs
    /\ url = http_url

NextIso ==
    \/ \E c \in Conns : Stor(c, IsoPath(c))
    \/ \E c \in Conns, data \in IsoChunks : Recv(c, data)
    \/ \E c \in Conns : HandleClose(c, TRUE)
    \/ \E c \in Conns : Abort(c, NoResp)
    \/ \E c \in Conns : HookClose(c)
    \/ \E c \in Conns, o \in IsoOutcomes : HookPostDone(c, o)
    \/ \E c \in Conns : SuperRespond(c)
    \/ \E c \in Conns : SuperFileClose(c)
    \/ \E c \in Conns, o \in IsoOutcomes : TeardownPostDone(c, o)
    \/ \E c \in Conns : HandleError(c)

SpecIso == InitIso /\ [][NextIso]_vars

\* Everything a connection owns.
Owned(c) == <<dtp[c], sink[c], written[c], posts[c], replies[c], hist[c]>>

\* C17: with two uploads interleaved, every POST body holds the chunks
\* written to its own sink, in order, under its own name; a step of one
\* connection leaves everything the other owns unchanged; a sink is closed
\* only by its own POST and a 550 response reports the connection's own
\* rejected POST; the endpoint URL and the account table never change.
C17_ConnectionsIsolated ==
    /\ [](\A c \in Conns :
            /\ \A i \in 1..Len(posts[c]) :
                 posts[c][i].request.body =
                     ExpectedPreamble([username |-> IsoPath(c)[1], name |-> IsoPath(c)[2]])
                     \o Concat(written[c]) \o ExpectedClosing
            /\ sink[c].closed
                 => (Len(posts[c]) = 1 /\ posts[c][1].outcome.kind # "pending")
            /\ \A i \in 1..Len(replies[c]) :
                 replies[c][i].code = 550
                     => /\ Len(posts[c]) = 1
                        /\ posts[c][1].outcome.kind = "status"
                        /\ StatusRejected(posts[c][1].outcome.status)
                        /\ replies[c][i].status = posts[c][1].outcome.status
            /\ url = http_url /\ user_table = IsoTable)
    /\ [][/\ \E c \in Conns : \A d \in Conns \ {c} : Owned(d)' = Owned(d)
          /\ url' = url /\ user_table' = user_table]_vars

\* Connection 1 has been answered 550 for its own rejected POST while the
\* POST of connection 2, holding other chunks, is still in flight.
C17_Witness ==
    /\ dtp[1].pc = "done" /\ written[1] = <<"a", "bc">>
    /\ posts[1][1].outcome.status = 500 /\ sink[1].closed
    /\ replies[1] = <<Resp550(500)>>
    /\ dtp[2].pc = "hook_post" /\ written[2] = <<"bc", "a">>
    /\ posts[2][1].outcome.kind = "pending" /\ ~sink[2].closed


====
